---- MODULE Spec2Model ----
(***************************************************************************)
(* GroupXpense: the local-first synchronisation engine (SyncService and    *)
(* the Firebase part of ExpenseService) as a state machine.                 *)
(*                                                                         *)
(* One JavaScript macrotask (an event handler, a timer callback, or the    *)
(* continuation of an async function after a network await) is one action. *)
(* An async function suspended at `await getDoc/setDoc` is a task record   *)
(* in `tasks`; its pc names the gateway call it is waiting for.            *)
(*   - a setDoc takes effect on the remote document when it is issued      *)
(*     (writes of one client reach the store in issue order); whether it   *)
(*     succeeds is chosen then and seen by the task when it resumes;       *)
(*   - a getDoc returns the remote document as it is when the task resumes; *)
(*   - a gateway call can succeed only while the network is online.        *)
(* A run starts with the services constructed on a device whose local      *)
(* store is empty, against any remote documents, network and session, and  *)
(* takes at most MaxEvents environment events; timers and gateway          *)
(* completions are not counted (Spec).  SpecStore runs the Record Store's   *)
(* operations from a filled and synced store.  SpecLive is a session that  *)
(* stays online, with timers that elapse and gateway calls that settle,    *)
(* for what must eventually happen.  SpecDevices is such a session with a  *)
(* second device that saves to the same remote documents, and SpecUpdate   *)
(* is updateGroup on groups and expenses that carry participants.  The     *)
(* parts that can be looked at alone have specifications of their own:     *)
(* mergeData (SpecMerge), the keys of localStorage that carry a user id    *)
(* (SpecUsers), and the settlement engine, calculateBalances and           *)
(* getSimplifiedBalances (SpecSettle, SpecPlan, and SpecSweep, which runs  *)
(* the loop of getSimplifiedBalances one iteration at a time).             *)
(***************************************************************************)
EXTENDS Integers, Sequences, FiniteSets, TLC

\* ------------------------------------------------------------------ bounds
MaxGroups == 1    \* group ids 1..MaxGroups
MaxExpenses == 1  \* expense ids 1..MaxExpenses
MaxVer == 2       \* contents an expense can have (edits): 1..MaxVer
MaxTasks == 2     \* async functions suspended at a gateway call at one time
MaxEvents == 2    \* environment events of one run: user actions, network and
                  \* session changes, gateway calls that fail while online
MaxBurst == 2     \* data-change triggers counted in one debounce burst
MaxLen == 2       \* list length of the inputs of mergeData (SpecMerge)
MaxMergeIds == 3  \* ids of the inputs of mergeData (SpecMerge)
MaxLiveEvents == 2  \* environment events of a run of SpecLive

GroupIds == 1..MaxGroups
ExpenseIds == 1..MaxExpenses
Versions == 1..MaxVer

Null == [id |-> 0]

\* Group and Expense (models/expense.model.ts), content abstracted to a version;
\* "u1" is the id of the account, "" a createdBy not set
GroupRec == [id : GroupIds, v : {1}, createdBy : {"u1"}]
ExpenseRec == [id : ExpenseIds, groupId : GroupIds, v : Versions, createdBy : {"u1"}]

VARIABLES
  \* ---- AuthService / browser
  online,          \* navigator.onLine
  loggedIn,        \* localStorage[USER_KEY] holds a user
  hasUid,          \* that user's firebaseUid is set
  \* ---- ExpenseService: localStorage of the user, and the Firestore documents
  localGroups, localExpenses, localCurrent, syncStatus,
  remoteGroups, remoteExpenses, remoteCurrent,
  \* ---- the values the BehaviorSubjects carried last
  groupsSubject, expensesSubject, currentGroupSubject,
  \* ---- SyncService fields
  syncInProgress, lastSyncTime, wasOffline, syncDebounceTimer,
  pendingOnline,   \* an 'online' event is queued for setupNetworkSync's listener
  \* ---- async functions suspended at a gateway call
  tasks,
  appStartTimer,   \* AppComponent.ngOnInit's setTimeout is pending
  \* ---- history (not program state)
  burst,           \* debouncedSync calls coalesced in the armed timer
  ev,              \* what the step that led to this state did
  tracked,         \* the expense saved while a reconciliation was in flight
  events,          \* environment events the run may still take
  deleted,         \* the expense deleted locally while the remote store held it
  observed,        \* every value the last step's notifications carried was the
                   \* stored one at that moment
  \* ---- mergeData as a pure function (SpecMerge)
  mLocal, mRemote, mOut,
  \* ---- the settlement engine as a pure function (SpecSettle, SpecPlan)
  sExpenses,       \* the unsettled and settled expenses of the group
  sBalances,       \* calculateBalances' map, as the list of its entries
  sPlan,           \* the transfers getSimplifiedBalances returns
  sTotal,          \* getTotalExpenses' sum
  sByPayer,        \* getExpensesByParticipant's map, as the list of its entries
  sPc,             \* "idle", "input", "vector", "settled", or "again": computed twice;
                   \* "sweep", "swept": in and after the loop of getSimplifiedBalances
  sSweep,          \* that loop's i and j, counted from 1
  \* ---- the keys of localStorage that carry a user id (SpecUsers)
  uCurrent,        \* AuthService's current user, 0: nobody
  uGroups,         \* user id -> the groups stored under group-xpense-groups-<id>
  uPull,           \* the user whose loadDataFromFirebase awaits getDoc, 0: nobody's
  uev              \* history: the last read or write of a user's key

vars == <<online, loggedIn, hasUid, localGroups, localExpenses, localCurrent,
          syncStatus, remoteGroups, remoteExpenses, remoteCurrent,
          syncInProgress, lastSyncTime, wasOffline, syncDebounceTimer, tasks,
          appStartTimer, pendingOnline, burst, ev, tracked, events, deleted,
          groupsSubject, expensesSubject, currentGroupSubject, observed, mLocal,
          mRemote, mOut, sExpenses, sBalances, sPlan, sTotal, sByPayer, sPc, sSweep,
          uCurrent,
          uGroups, uPull,
          uev>>

syncVars == <<online, loggedIn, hasUid, localGroups, localExpenses, localCurrent,
              syncStatus, remoteGroups, remoteExpenses, remoteCurrent,
              syncInProgress, lastSyncTime, wasOffline, syncDebounceTimer, tasks,
              appStartTimer, pendingOnline, burst, ev, tracked, events, deleted,
              groupsSubject, expensesSubject, currentGroupSubject, observed>>

mergeVars == <<mLocal, mRemote, mOut>>

settleVars == <<sExpenses, sBalances, sPlan, sTotal, sByPayer, sPc, sSweep>>

userVars == <<uCurrent, uGroups, uPull, uev>>

\* the variables of the parts checked on their own
otherVars == <<mergeVars, settleVars, userVars>>

\* ------------------------------------------------------------ sequences
Range(s) == {s[i] : i \in 1..Len(s)}

Ids(s) == {s[i].id : i \in 1..Len(s)}

UniqueIds(s) == \A i, j \in 1..Len(s) : s[i].id = s[j].id => i = j

RemoveAt(s, k) == [i \in 1..(Len(s) - 1) |-> IF i < k THEN s[i] ELSE s[i + 1]]

\* Array.prototype.findIndex, 0 for -1
FindIndex(s, id) ==
  IF \E i \in 1..Len(s) : s[i].id = id
  THEN CHOOSE i \in 1..Len(s) : s[i].id = id /\ \A j \in 1..(i - 1) : s[j].id # id
  ELSE 0

\* all lists of at most n records of S with no id twice
RECURSIVE ListsUpTo(_, _)
ListsUpTo(S, n) ==
  IF n = 0 THEN {<<>>}
  ELSE LET shorter == ListsUpTo(S, n - 1)
       IN shorter \cup {Append(s, r) : s \in {t \in shorter : Len(t) = n - 1},
                                       r \in S}

UniqueLists(S, n) == {s \in ListsUpTo(S, n) : UniqueIds(s)}

\* -------------------------------------------------------------- mergeData
\* Map.prototype.set on an insertion-ordered map kept as the list of its values
MapSet(m, item) ==
  LET k == FindIndex(m, item.id)
  IN IF k = 0 THEN Append(m, item) ELSE [m EXCEPT ![k] = item]

RECURSIVE MapSetAll(_, _)
MapSetAll(m, items) ==
  IF items = <<>> THEN m ELSE MapSetAll(MapSet(m, Head(items)), Tail(items))

\* mutant: the local record wins on a shared id
MergeLocalWins(localData, firebaseData) ==
  MapSetAll(MapSetAll(<<>>, firebaseData), localData)

\* mutant: a non-empty remote snapshot replaces the local list
MergeReplace(localData, firebaseData) ==
  IF firebaseData = <<>> THEN localData ELSE firebaseData

mergeData(localData, firebaseData) ==
  MapSetAll(MapSetAll(<<>>, localData), firebaseData)

\* ------------------------------------------------- AuthService (queries)
isOnline == online

isAuthenticated == loggedIn

\* ExpenseService.canSyncToFirebase
canSyncToFirebase == isOnline /\ loggedIn /\ hasUid

\* mutant: a reconciliation is refused while lastSyncTime is set
ShouldSyncNotRecently == isAuthenticated /\ isOnline /\ lastSyncTime = "null"

\* SyncService.shouldSync: both branches after the two checks return true
shouldSync == isAuthenticated /\ isOnline

\* mutant: triggerSync without the syncInProgress test
SyncAdmittedNoLock == shouldSync

\* SyncService.triggerSync: the two early returns
SyncAdmitted == ~syncInProgress /\ shouldSync

\* -------------------------------------------------------------- the store
\* The documents a step reads and writes, as one record S: lg, le, lc, st are the
\* user's localStorage keys; rg, re, rc the Firestore documents; timer, burst the
\* debounce timer; gs, es, cs the values of the three subjects; seen: the values
\* carried by the notifications of this step were the stored ones. Operators below
\* map S to the S after a call.
Cur ==
  [lg |-> localGroups, le |-> localExpenses, lc |-> localCurrent, st |-> syncStatus,
   rg |-> remoteGroups, re |-> remoteExpenses, rc |-> remoteCurrent,
   timer |-> syncDebounceTimer, burst |-> burst,
   gs |-> groupsSubject, es |-> expensesSubject, cs |-> currentGroupSubject,
   seen |-> TRUE]

Commit(S) ==
  /\ localGroups' = S.lg
  /\ localExpenses' = S.le
  /\ localCurrent' = S.lc
  /\ syncStatus' = S.st
  /\ remoteGroups' = S.rg
  /\ remoteExpenses' = S.re
  /\ remoteCurrent' = S.rc
  /\ syncDebounceTimer' = S.timer
  /\ burst' = S.burst
  /\ groupsSubject' = S.gs
  /\ expensesSubject' = S.es
  /\ currentGroupSubject' = S.cs
  /\ observed' = S.seen

Min(a, b) == IF a < b THEN a ELSE b

\* getUserKey throws when nobody is logged in; the three readers catch it
getGroupsFromStorage(S) == IF loggedIn THEN S.lg ELSE <<>>

getExpensesFromStorage(S) == IF loggedIn THEN S.le ELSE <<>>

getCurrentGroupFromStorage(S) == IF loggedIn THEN S.lc ELSE Null

\* mutant: every call adds a timer and the pending one is left to fire
DebouncedSyncNoCancel(S) ==
  [S EXCEPT !.timer = Min(S.timer + 1, 2), !.burst = Min(S.burst + 1, MaxBurst)]

\* SyncService.debouncedSync: clearTimeout, then setTimeout
debouncedSync(S) ==
  [S EXCEPT !.timer = 1, !.burst = Min(S.burst + 1, MaxBurst)]

\* mutant: nobody is subscribed to groups$ and expenses$
NotifyDataNobody(S) == S

\* groupsSubject.next / expensesSubject.next: setupDataChangeSync's subscribers
NotifyData(S) == debouncedSync(S)

\* setSyncStatus, called with a user logged in
setSyncStatus(S, status) == [S EXCEPT !.st = status]

\* subject.next(value): the subject's value, and whether a subscriber that reads the
\* store in its handler finds value there; key: "groups", "expenses", "currentGroup".
\* SyncService is subscribed to groups$ and expenses$
SubjectNext(S, key, value) ==
  IF key = "groups"
  THEN NotifyData([S EXCEPT !.gs = value, !.seen = S.seen /\ getGroupsFromStorage(S) = value])
  ELSE IF key = "expenses"
  THEN NotifyData([S EXCEPT !.es = value, !.seen = S.seen /\ getExpensesFromStorage(S) = value])
  ELSE [S EXCEPT !.cs = value, !.seen = S.seen /\ getCurrentGroupFromStorage(S) = value]

\* mutant: the subscribers are notified before the value is stored
NextThenSetItem(S, key, value) ==
  LET N == SubjectNext(S, key, value)
  IN IF key = "groups" THEN [N EXCEPT !.lg = value]
     ELSE IF key = "expenses" THEN [N EXCEPT !.le = value]
     ELSE [N EXCEPT !.lc = value]

\* localStorage.setItem(userKey, JSON.stringify(value)) (removeItem for null), then
\* subject.next(value)
SetItemThenNext(S, key, value) ==
  SubjectNext(IF key = "groups" THEN [S EXCEPT !.lg = value]
              ELSE IF key = "expenses" THEN [S EXCEPT !.le = value]
              ELSE [S EXCEPT !.lc = value],
              key, value)

\* mergeAndSaveGroups / mergeAndSaveExpenses, called with a user logged in
mergeAndSaveGroups(S, firebaseGroups) ==
  SetItemThenNext(S, "groups", mergeData(S.lg, firebaseGroups))

\* mutant: the fetched expenses are not merged into the local list
MergeAndSaveExpensesKeepLocal(S, firebaseExpenses) == NotifyData(S)

mergeAndSaveExpenses(S, firebaseExpenses) ==
  SetItemThenNext(S, "expenses", mergeData(S.le, firebaseExpenses))

\* ------------------------------------------------------------------ tasks
PullPcs == {"getGroups", "getExpenses", "getCurrent"}
PushPcs == {"setGroups", "setExpenses", "setCurrent"}

\* kind: "sync" triggerSync, "save" a save/delete handler's push, "init" initialDataLoad
\* net: started by the 'online' listener; loaded: dataLoaded; wfail: the awaited
\* setDoc rejects.  History, kept for a reconciliation only: pullFailed, a getDoc of
\* it failed; dirty, the local store was changed by somebody else meanwhile.
\* History, kept for deleteGroup only: gid, the id it was called with (and dirty).
NewTask(kind, pc, net, wfail) ==
  [kind |-> kind, pc |-> pc, net |-> net, wfail |-> wfail, loaded |-> FALSE,
   pullFailed |-> FALSE, dirty |-> FALSE, gid |-> 0]

\* the result of running a task from one await to the next (or to its end):
\* out is "await", "returned" or "threw"
Res(S, t, out, issued, failed, pushed) ==
  [S |-> S, t |-> t, out |-> out, issued |-> issued, failed |-> failed,
   pushed |-> pushed]

\* loadDataFromFirebase: the catch block; setSyncStatus throws out of it with no user
LoadCatch(S, t, failed) ==
  IF loggedIn THEN Res(setSyncStatus(S, "error"), t, "returned", {}, failed, FALSE)
  ELSE Res(S, t, "threw", {}, failed, FALSE)

\* loadDataFromFirebase from the await of t.pc on; rok: that getDoc resolves
LoadStep(S, t, rok) ==
  IF ~rok THEN LoadCatch(S, [t EXCEPT !.pullFailed = (t.kind = "sync")], TRUE)
  ELSE IF t.pc = "getGroups" THEN
    IF S.rg = <<>> THEN
      Res(S, [t EXCEPT !.pc = "getExpenses"], "await", {"getExpenses"}, FALSE, FALSE)
    ELSE IF loggedIn THEN
      Res(mergeAndSaveGroups(S, S.rg), [t EXCEPT !.pc = "getExpenses", !.loaded = TRUE],
          "await", {"getExpenses"}, FALSE, FALSE)
    ELSE LoadCatch(S, t, FALSE)
  ELSE IF t.pc = "getExpenses" THEN
    IF S.re = <<>> THEN
      Res(S, [t EXCEPT !.pc = "getCurrent"], "await", {"getCurrent"}, FALSE, FALSE)
    ELSE IF loggedIn THEN
      Res(mergeAndSaveExpenses(S, S.re), [t EXCEPT !.pc = "getCurrent", !.loaded = TRUE],
          "await", {"getCurrent"}, FALSE, FALSE)
    ELSE LoadCatch(S, t, FALSE)
  ELSE \* "getCurrent"; setCurrentGroup is not awaited and catches its own errors,
       \* and its setDoc writes back the document just read
    LET found == S.rc # Null
        S1 == IF found /\ loggedIn THEN SetItemThenNext(S, "currentGroup", S.rc) ELSE S
        calls == IF found /\ canSyncToFirebase THEN {"setCurrent"} ELSE {}
    IN IF t.loaded \/ found THEN
         IF loggedIn
         THEN Res(setSyncStatus(S1, "synced"), t, "returned", calls, FALSE, FALSE)
         ELSE [LoadCatch(S1, t, FALSE) EXCEPT !.issued = calls]
       ELSE Res(S1, t, "returned", calls, FALSE, FALSE)

\* mutant: the expenses document is written from an empty list
ExpensesToPushNone(S) == <<>>

\* syncLocalDataToFirebase: const expenses = this.getExpensesFromStorage()
ExpensesToPush(S) == getExpensesFromStorage(S)

\* syncLocalDataToFirebase: the catch block
PushCatch(S, t, failed) ==
  IF loggedIn THEN Res(setSyncStatus(S, "error"), t, "returned", {}, failed, FALSE)
  ELSE Res(S, t, "threw", {}, failed, FALSE)

\* syncLocalDataToFirebase: this.setSyncStatus('synced') inside the try
PushSynced(S, t) ==
  IF loggedIn THEN Res(setSyncStatus(S, "synced"), t, "returned", {}, FALSE, TRUE)
  ELSE PushCatch(S, t, FALSE)

\* syncLocalDataToFirebase up to its first await; wok: the setDoc issued will succeed
PushStart(S, t, wok) ==
  IF ~canSyncToFirebase THEN Res(S, t, "returned", {}, FALSE, FALSE)
  ELSE Res(IF wok THEN [S EXCEPT !.rg = getGroupsFromStorage(S)] ELSE S,
           [t EXCEPT !.pc = "setGroups", !.wfail = ~wok],
           "await", {"setGroups"}, FALSE, FALSE)

\* syncLocalDataToFirebase from the await of t.pc on
PushStep(S, t, wok) ==
  IF t.wfail THEN PushCatch(S, t, TRUE)
  ELSE IF t.pc = "setGroups" THEN
    Res(IF wok THEN [S EXCEPT !.re = ExpensesToPush(S)] ELSE S,
        [t EXCEPT !.pc = "setExpenses", !.wfail = ~wok],
        "await", {"setExpenses"}, FALSE, FALSE)
  ELSE IF t.pc = "setExpenses" THEN
    IF getCurrentGroupFromStorage(S) # Null THEN
      Res(IF wok THEN [S EXCEPT !.rc = getCurrentGroupFromStorage(S)] ELSE S,
          [t EXCEPT !.pc = "setCurrent", !.wfail = ~wok],
          "await", {"setCurrent"}, FALSE, FALSE)
    ELSE PushSynced(S, t)
  ELSE PushSynced(S, t)

\* one macrotask of a suspended async function: triggerSync awaits the load and then
\* the push; initialDataLoad only the load; a save handler only the push
Step(S, t, rok, wok) ==
  IF t.pc \in PullPcs THEN
    LET l == LoadStep(S, t, rok)
    IN IF l.out = "returned" /\ t.kind = "sync"
       THEN LET p == PushStart(l.S, [l.t EXCEPT !.loaded = FALSE], wok)
            IN [p EXCEPT !.issued = l.issued \cup p.issued, !.failed = l.failed]
       ELSE l
  ELSE PushStep(S, t, wok)

\* ---------------------------------------------------------------- history
\* ev: what the step into this state did, when it was a call of triggerSync or a
\* step of a reconciliation: the gateway calls it issued, how it ended
NoEv == [e |-> "none"]

\* history: no expense deleted while the remote store held it
NoDel == [id |-> 0, fetched |-> "no"]

SyncIdx == {i \in 1..Len(tasks) : tasks[i].kind = "sync"}

\* a reconciliation is suspended at a gateway call
InFlight == SyncIdx # {}

\* a local mutation made while a reconciliation, or the push of a deleteGroup, is
\* in flight
MarkDirty(ts) ==
  [i \in 1..Len(ts) |-> [ts[i] EXCEPT !.dirty = (ts[i].kind = "sync" \/ ts[i].gid # 0)]]

\* the step is k environment events
Spend(k) == events >= k /\ events' = events - k

\* ------------------------------------------------------------ SyncService
\* triggerSync(source), run on the store S the caller leaves; gate: the caller's own
\* test before the call; cleared: forceSync's lastSyncTime = null.
TriggerSync(S, src, gate, cleared) ==
  LET admitted == gate /\ SyncAdmitted
      \* loadDataFromFirebase goes past its two early returns and awaits getDoc
      remote == admitted /\ isOnline /\ loggedIn /\ hasUid
  IN /\ remote => Len(tasks) < MaxTasks
     /\ Commit(S)
     /\ lastSyncTime' = IF admitted THEN "set" ELSE IF cleared THEN "null" ELSE lastSyncTime
     /\ tasks' = IF remote
                 THEN Append(tasks, NewTask("sync", "getGroups", src = "network_online", FALSE))
                 ELSE tasks
     \* without a remote id both awaits return at once and finally clears the flag
     /\ syncInProgress' = IF remote THEN TRUE ELSE IF admitted THEN FALSE ELSE syncInProgress
     /\ ev' = [e |-> "trigger", src |-> src, fired |-> src = "data_change",
               n |-> IF src = "data_change" THEN burst ELSE 0, busy |-> syncInProgress,
               started |-> admitted, issued |-> IF remote THEN {"getGroups"} ELSE {}]

\* setupRouteSync: NavigationEnd
RouteChange ==
  /\ Spend(1)
  /\ TriggerSync(Cur, "route_change", TRUE, FALSE)
  /\ UNCHANGED <<online, loggedIn, hasUid, wasOffline, appStartTimer, pendingOnline,
                 tracked, deleted,
                 otherVars>>

\* forceSync / manualSync
ForceSync ==
  /\ Spend(1)
  /\ TriggerSync(Cur, "force", TRUE, TRUE)
  /\ UNCHANGED <<online, loggedIn, hasUid, wasOffline, appStartTimer, pendingOnline,
                 tracked, deleted,
                 otherVars>>

\* AppComponent.ngOnInit: setTimeout(() => triggerSync('app_start'), 1000)
AppStart ==
  /\ appStartTimer
  /\ appStartTimer' = FALSE
  /\ Spend(0)
  /\ TriggerSync(Cur, "app_start", TRUE, FALSE)
  /\ UNCHANGED <<online, loggedIn, hasUid, wasOffline, pendingOnline, tracked, deleted,
                 otherVars>>

\* the callback debouncedSync arms
DebounceFire ==
  /\ syncDebounceTimer > 0
  /\ Spend(0)
  /\ TriggerSync([Cur EXCEPT !.timer = syncDebounceTimer - 1, !.burst = 0],
                 "data_change", isOnline /\ isAuthenticated, FALSE)
  /\ UNCHANGED <<online, loggedIn, hasUid, wasOffline, appStartTimer, pendingOnline,
                 tracked, deleted,
                 otherVars>>

\* window 'offline'
GoOffline ==
  /\ online
  /\ Spend(1)
  /\ online' = FALSE
  /\ wasOffline' = TRUE
  /\ ev' = NoEv
  /\ tracked' = Null
  /\ UNCHANGED <<loggedIn, hasUid, localGroups, localExpenses, localCurrent, syncStatus,
                 remoteGroups, remoteExpenses, remoteCurrent, syncInProgress,
                 lastSyncTime, syncDebounceTimer, tasks, appStartTimer, pendingOnline,
                 burst, deleted, groupsSubject, expensesSubject,
                 currentGroupSubject, observed,
                 otherVars>>

\* the network comes back: navigator.onLine turns true and 'online' is queued
GoOnline ==
  /\ ~online
  /\ Spend(1)
  /\ online' = TRUE
  /\ pendingOnline' = TRUE
  /\ ev' = NoEv
  /\ UNCHANGED <<loggedIn, hasUid, localGroups, localExpenses, localCurrent, syncStatus,
                 remoteGroups, remoteExpenses, remoteCurrent, syncInProgress,
                 lastSyncTime, wasOffline, syncDebounceTimer, tasks, appStartTimer,
                 burst, tracked, deleted, groupsSubject, expensesSubject,
                 currentGroupSubject, observed,
                 otherVars>>

\* setupNetworkSync's 'online' listener; hasPendingChanges() is wasOffline.
\* wasOffline = false runs after the awaited triggerSync: at once when it returns
\* early, else when the reconciliation settles (the task's net flag)
OnlineListener ==
  /\ pendingOnline
  /\ pendingOnline' = FALSE
  /\ Spend(0)
  /\ TriggerSync(Cur, "network_online", wasOffline, FALSE)
  /\ wasOffline' = IF Len(tasks') > Len(tasks) THEN wasOffline ELSE FALSE
  /\ UNCHANGED <<online, loggedIn, hasUid, appStartTimer, tracked, deleted,
                 otherVars>>

\* mutant: the flag is cleared on the normal path only (no finally)
SyncFlagAfterNoFinally(kind, out, flag) ==
  IF kind = "sync" /\ out = "returned" THEN FALSE ELSE flag

\* triggerSync: finally { this.syncInProgress = false }
SyncFlagAfter(kind, out, flag) ==
  IF kind = "sync" /\ out # "await" THEN FALSE ELSE flag

\* a suspended async function resumes: its getDoc/setDoc settles.  rok: the awaited
\* getDoc resolves; wok: the setDoc this step issues will succeed
Resume(i) ==
  LET t == tasks[i]
  IN \E rok, wok \in BOOLEAN :
       /\ rok => (online \/ t.pc \in PushPcs)
       /\ t.pc \in PushPcs => rok
       /\ wok => online
       /\ LET r == Step(Cur, t, rok, wok)
              done == r.out # "await"
              wrote == r.issued \cap {"setGroups", "setExpenses"} # {}
                       \/ ("setCurrent" \in r.issued /\ t.pc \in PushPcs)
              \* a merge by initialDataLoad is a local mutation to a reconciliation
              others == IF t.kind # "sync" /\ <<r.S.lg, r.S.le, r.S.lc>> # <<Cur.lg, Cur.le, Cur.lc>>
                        THEN MarkDirty(tasks) ELSE tasks
              cost == (IF online /\ ~rok THEN 1 ELSE 0)
                      + (IF online /\ wrote /\ ~wok THEN 1 ELSE 0)
          IN /\ ~wrote => (wok = online)
             /\ Spend(cost)
             /\ Commit(r.S)
             /\ tasks' = IF done THEN RemoveAt(others, i) ELSE [others EXCEPT ![i] = r.t]
             /\ syncInProgress' = SyncFlagAfter(t.kind, r.out, syncInProgress)
             /\ wasOffline' = IF done /\ t.kind = "sync" /\ t.net THEN FALSE ELSE wasOffline
             /\ ev' = IF t.kind = "sync"
                      THEN [e |-> "resume", out |-> r.out, issued |-> r.issued,
                            failed |-> r.failed \/ r.t.pullFailed,
                            pullFailed |-> r.t.pullFailed, pushed |-> r.pushed,
                            dirty |-> t.dirty, del |-> IF done THEN deleted ELSE NoDel]
                      \* the awaited push of a save or delete handler has ended
                      ELSE IF t.kind = "save" /\ done
                      THEN [e |-> "opdone", threw |-> r.out = "threw", failed |-> r.failed,
                            gid |-> t.gid, dirty |-> t.dirty]
                      ELSE NoEv
             \* the deleted expense: whether the reconciliation's fetch found it
             /\ deleted' = IF t.kind # "sync" \/ deleted.id = 0 THEN deleted
                           ELSE IF done THEN NoDel
                           ELSE IF t.pc = "getExpenses" /\ rok
                           THEN [deleted EXCEPT !.fetched =
                                   IF deleted.id \in Ids(remoteExpenses) THEN "held" ELSE "gone"]
                           ELSE deleted
             /\ tracked' = IF r.failed \/ (wrote /\ ~wok) THEN Null ELSE tracked
             /\ UNCHANGED <<online, loggedIn, hasUid, lastSyncTime, appStartTimer,
                            pendingOnline, otherVars>>

\* --------------------------------------------------------- ExpenseService
\* generateUUID: an id no record anywhere carries
FreshGroupIds ==
  GroupIds \ (Ids(localGroups) \cup Ids(remoteGroups)
              \cup {localCurrent.id, remoteCurrent.id})

FreshExpenseIds ==
  ExpenseIds \ (Ids(localExpenses) \cup Ids(remoteExpenses) \cup {tracked.id})

\* AuthService.getCurrentUserId
getCurrentUserId == IF loggedIn THEN "u1" ELSE ""

\* mutant: createdBy is left as the caller set it
NewRecordAsGiven(rec, id) == [rec EXCEPT !.id = id]

\* saveGroup / saveExpense of a record with no id: the id generated, createdBy
NewRecord(rec, id) == [rec EXCEPT !.id = id, !.createdBy = getCurrentUserId]

\* mutant: the record is pushed whether or not its id is stored
PutByIdPush(list, rec) == Append(list, rec)

\* saveGroup / saveExpense: replace at findIndex, or leave the list as it is
PutById(list, rec) ==
  LET k == FindIndex(list, rec.id)
  IN IF k = 0 THEN list ELSE [list EXCEPT ![k] = rec]

\* the expense a save made while a reconciliation is in flight leaves to be pushed
Track(S, op, changedId, wok) ==
  IF canSyncToFirebase /\ ~wok THEN Null
  ELSE IF op = "saveExpense" /\ InFlight /\ canSyncToFirebase
          /\ changedId \in Ids(S.le)
       THEN S.le[FindIndex(S.le, changedId)]
  ELSE IF op \in {"saveExpense", "deleteExpense"} /\ tracked.id = changedId THEN Null
  ELSE IF op = "deleteGroup" /\ tracked \notin Range(S.le) THEN Null
  ELSE tracked

\* history: the call of a Record Store operation; id: the id it was given, or the
\* one it generated; threw: it raised to its caller before any await; done: it
\* returned or raised in this step, with no await left
OpEv(op, id, threw, done) ==
  [e |-> "op", op |-> op, id |-> id, threw |-> threw, done |-> done]

\* the tail of saveGroup, deleteGroup, saveExpense, deleteExpense, on the store S the
\* handler has written: if (canSyncToFirebase()) await syncLocalDataToFirebase()
ThenPush(S, op, changedId) ==
  \E wok \in BOOLEAN :
    /\ IF canSyncToFirebase THEN TRUE ELSE wok = online
    /\ Spend(IF canSyncToFirebase /\ ~wok THEN 2 ELSE 1)
    /\ LET r == PushStart(S, NewTask("save", "setGroups", FALSE, FALSE), wok)
       IN /\ r.out = "await" => Len(tasks) < MaxTasks
          /\ Commit(r.S)
          /\ tasks' = IF r.out = "await"
                      THEN Append(MarkDirty(tasks),
                                  [r.t EXCEPT !.gid = IF op = "deleteGroup" THEN changedId ELSE 0])
                      ELSE MarkDirty(tasks)
          /\ ev' = OpEv(op, changedId, FALSE, r.out # "await")
          /\ tracked' = Track(S, op, changedId, wok)
          /\ deleted' = IF op = "deleteExpense" /\ changedId \in Ids(localExpenses)
                           /\ changedId \in Ids(remoteExpenses)
                        THEN [id |-> changedId, fetched |-> "no"]
                        ELSE IF op = "saveExpense" /\ changedId = deleted.id THEN NoDel
                        ELSE deleted

\* a handler called with no user: it touches nothing; saveGroup, saveExpense,
\* deleteGroup, deleteExpense throw 'User must be logged in', setCurrentGroup and
\* clearCurrentGroup catch getUserKey's error and return
Rejected(op, id) ==
  /\ Spend(1)
  /\ ev' = OpEv(op, id, op \notin {"setCurrentGroup", "clearCurrentGroup"}, TRUE)
  /\ UNCHANGED <<localGroups, localExpenses, localCurrent, syncStatus, remoteGroups,
                 remoteExpenses, remoteCurrent, syncDebounceTimer, burst, tasks, tracked,
                 deleted, groupsSubject, expensesSubject, currentGroupSubject, observed>>

Unchanged1 ==
  UNCHANGED <<online, loggedIn, hasUid, syncInProgress, lastSyncTime, wasOffline,
              appStartTimer, pendingOnline, otherVars>>

\* saveGroup(group); group.id = 0 is the empty id of a new group
SaveGroup(group) ==
  /\ Unchanged1
  /\ IF ~loggedIn THEN Rejected("saveGroup", group.id)
     ELSE IF group.id = 0
     THEN \E nid \in FreshGroupIds :
            ThenPush(SetItemThenNext(Cur, "groups", Append(localGroups, NewRecord(group, nid))),
                     "saveGroup", nid)
     ELSE ThenPush(SetItemThenNext(Cur, "groups", PutById(localGroups, group)),
                   "saveGroup", group.id)

\* saveExpense(expense); expense.id = 0 is the empty id of a new expense
SaveExpense(expense) ==
  /\ Unchanged1
  /\ IF ~loggedIn THEN Rejected("saveExpense", expense.id)
     ELSE IF expense.id = 0
     THEN \E nid \in FreshExpenseIds :
            ThenPush(SetItemThenNext(Cur, "expenses",
                                     Append(localExpenses, NewRecord(expense, nid))),
                     "saveExpense", nid)
     ELSE ThenPush(SetItemThenNext(Cur, "expenses", PutById(localExpenses, expense)),
                   "saveExpense", expense.id)

\* deleteExpense(id)
DeleteExpense(id) ==
  /\ Unchanged1
  /\ IF ~loggedIn THEN Rejected("deleteExpense", id)
     ELSE ThenPush(SetItemThenNext(Cur, "expenses",
                                   SelectSeq(localExpenses, LAMBDA x : x.id # id)),
                   "deleteExpense", id)

\* mutant: the expenses of the group are kept
DeleteAllExpensesForGroupKeep(S, groupId) == NotifyData(S)

\* deleteAllExpensesForGroup(groupId)
deleteAllExpensesForGroup(S, groupId) ==
  SetItemThenNext(S, "expenses", SelectSeq(S.le, LAMBDA x : x.groupId # groupId))

\* deleteGroup(id): the group, then deleteAllExpensesForGroup, then the active pointer
DeleteGroup(id) ==
  /\ Unchanged1
  /\ IF ~loggedIn THEN Rejected("deleteGroup", id)
     ELSE LET S1 == SetItemThenNext(Cur, "groups", SelectSeq(localGroups, LAMBDA g : g.id # id))
              S2 == deleteAllExpensesForGroup(S1, id)
              S3 == IF S2.lc # Null /\ S2.lc.id = id
                    THEN SetItemThenNext(S2, "currentGroup", Null) ELSE S2
          IN ThenPush(S3, "deleteGroup", id)

\* setCurrentGroup(group): the error of a missing user is caught and logged; the
\* setDoc is the handler's last statement
SetCurrentGroup(group) ==
  /\ Unchanged1
  /\ IF ~loggedIn THEN Rejected("setCurrentGroup", group.id)
     ELSE \E wok \in BOOLEAN :
            /\ wok => canSyncToFirebase
            /\ Spend(IF canSyncToFirebase /\ ~wok THEN 2 ELSE 1)
            /\ Commit([SetItemThenNext(Cur, "currentGroup", group)
                         EXCEPT !.rc = IF wok THEN group ELSE remoteCurrent])
            /\ tasks' = MarkDirty(tasks)
            /\ ev' = OpEv("setCurrentGroup", group.id, FALSE, TRUE)
            /\ tracked' = IF canSyncToFirebase /\ ~wok THEN Null ELSE tracked
            /\ UNCHANGED deleted

\* AuthService.logout; the navigation to /login it ends with is a RouteChange
Logout ==
  /\ loggedIn
  /\ Spend(1)
  /\ loggedIn' = FALSE
  /\ tasks' = MarkDirty(tasks)
  /\ ev' = NoEv
  /\ tracked' = Null
  /\ UNCHANGED <<online, hasUid, localGroups, localExpenses, localCurrent, syncStatus,
                 remoteGroups, remoteExpenses, remoteCurrent, syncInProgress,
                 lastSyncTime, wasOffline, syncDebounceTimer, appStartTimer,
                 pendingOnline, burst, deleted, groupsSubject, expensesSubject,
                 currentGroupSubject, observed,
                 otherVars>>

\* AuthService.login of the same account
Login ==
  /\ ~loggedIn
  /\ Spend(1)
  /\ loggedIn' = TRUE
  /\ tasks' = MarkDirty(tasks)
  /\ ev' = NoEv
  /\ UNCHANGED <<online, hasUid, localGroups, localExpenses, localCurrent, syncStatus,
                 remoteGroups, remoteExpenses, remoteCurrent, syncInProgress,
                 lastSyncTime, wasOffline, syncDebounceTimer, appStartTimer,
                 pendingOnline, burst, tracked, deleted, groupsSubject, expensesSubject,
                 currentGroupSubject, observed,
                 otherVars>>

\* ------------------------------------------------------------------- Spec
\* what a caller passes: a record it has read, edited, or a new one with no id
GroupInputs ==
  {g \in [id : GroupIds \cup {0}, v : {1}, createdBy : {"", "u1"}] :
     g.id = 0 <=> g.createdBy = ""}

ExpenseInputs ==
  {x \in [id : ExpenseIds \cup {0}, groupId : GroupIds, v : Versions,
          createdBy : {"", "u1"}] :
     x.id = 0 <=> x.createdBy = ""}

NoMerge == [lr |-> <<>>, rl |-> <<>>, done |-> FALSE]

\* the pure functions have not been called
MergeIdle == mLocal = <<>> /\ mRemote = <<>> /\ mOut = NoMerge

\* no session: nobody logged in, offline, nothing stored, nothing pending
SyncIdle ==
  /\ online = FALSE
  /\ loggedIn = FALSE
  /\ hasUid = FALSE
  /\ localGroups = <<>>
  /\ localExpenses = <<>>
  /\ localCurrent = Null
  /\ syncStatus = "none"
  /\ remoteGroups = <<>>
  /\ remoteExpenses = <<>>
  /\ remoteCurrent = Null
  /\ syncInProgress = FALSE
  /\ lastSyncTime = "null"
  /\ wasOffline = FALSE
  /\ pendingOnline = FALSE
  /\ syncDebounceTimer = 0
  /\ burst = 0
  /\ tasks = <<>>
  /\ appStartTimer = FALSE
  /\ ev = NoEv
  /\ tracked = Null
  /\ events = 0
  /\ deleted = NoDel
  /\ groupsSubject = <<>>
  /\ expensesSubject = <<>>
  /\ currentGroupSubject = Null
  /\ observed = TRUE

SettleIdle ==
  /\ sExpenses = <<>>
  /\ sBalances = <<>>
  /\ sPlan = <<>>
  /\ sTotal = 0
  /\ sByPayer = <<>>
  /\ sPc = "idle"
  /\ sSweep = [i |-> 0, j |-> 0]

MaxUsers == 2
MaxUserGroups == 2     \* groups a user creates on the device

Users == 1..MaxUsers

NoUev == [e |-> "none"]

\* the keys with a user id are not looked at
UsersIdle ==
  uCurrent = 0 /\ uGroups = [u \in Users |-> <<>>] /\ uPull = 0 /\ uev = NoUev

Init ==
  /\ online \in BOOLEAN
  /\ loggedIn \in BOOLEAN
  /\ hasUid \in BOOLEAN
  /\ localGroups = <<>>
  /\ localExpenses = <<>>
  /\ localCurrent = Null
  /\ syncStatus = "none"
  /\ remoteGroups \in UniqueLists(GroupRec, MaxGroups)
  \* contents are only compared: those of the remote expenses are called 1
  /\ remoteExpenses \in UniqueLists([id : ExpenseIds, groupId : GroupIds, v : {1}, createdBy : {"u1"}],
                                   MaxExpenses)
  /\ remoteCurrent = Null
  /\ syncInProgress = FALSE
  /\ lastSyncTime = "null"
  /\ wasOffline = ~online
  /\ pendingOnline = FALSE
  \* initializeSync subscribes to expenses$ and groups$, which replay their value
  /\ syncDebounceTimer = 1
  /\ burst = Min(2, MaxBurst)
  \* ExpenseService's constructor: initialDataLoad
  /\ tasks = IF loggedIn /\ online /\ hasUid
             THEN <<NewTask("init", "getGroups", FALSE, FALSE)>> ELSE <<>>
  /\ appStartTimer = (loggedIn /\ online)
  /\ ev = NoEv
  /\ tracked = Null
  /\ events = MaxEvents
  /\ deleted = NoDel
  \* the subjects are constructed with what the store holds
  /\ groupsSubject = localGroups
  /\ expensesSubject = localExpenses
  /\ currentGroupSubject = localCurrent
  /\ observed = TRUE
  /\ MergeIdle
  /\ SettleIdle
  /\ UsersIdle

Next ==
  \/ RouteChange
  \/ ForceSync
  \/ AppStart
  \/ DebounceFire
  \/ GoOffline
  \/ GoOnline
  \/ OnlineListener
  \/ \E i \in 1..Len(tasks) : Resume(i)
  \/ \E g \in GroupInputs : SaveGroup(g)
  \/ \E x \in ExpenseInputs : SaveExpense(x)
  \/ \E id \in ExpenseIds : DeleteExpense(id)
  \/ \E id \in GroupIds : DeleteGroup(id)
  \/ \E g \in Range(localGroups) : SetCurrentGroup(g)
  \/ Logout
  \/ Login

Spec == Init /\ [][Next]_vars

\* ------------------------------------------- a session that stays online
\* The user stays logged in with a remote id and the network stays online; the only
\* environment events are navigations and gateway calls that fail, MaxLiveEvents of
\* them. The device's store is empty, the remote one holds anything or nothing, the
\* timers of the start have elapsed.
\* Timers elapse and gateway calls settle: the callback of a pending timer and the
\* continuation of a suspended async function are eventually run.
InitLive ==
  /\ online = TRUE
  /\ loggedIn = TRUE
  /\ hasUid = TRUE
  /\ localGroups = <<>>
  /\ localExpenses = <<>>
  /\ localCurrent = Null
  /\ syncStatus = "synced"
  /\ remoteGroups \in UniqueLists(GroupRec, MaxGroups)
  /\ remoteExpenses \in UniqueLists(ExpenseRec, MaxExpenses)
  /\ remoteCurrent = Null
  /\ syncInProgress = FALSE
  /\ lastSyncTime = "null"
  /\ wasOffline = FALSE
  /\ pendingOnline = FALSE
  /\ syncDebounceTimer = 0
  /\ burst = 0
  /\ tasks = <<>>
  /\ appStartTimer = FALSE
  /\ ev = NoEv
  /\ tracked = Null
  /\ events = MaxLiveEvents
  /\ deleted = NoDel
  /\ groupsSubject = localGroups
  /\ expensesSubject = localExpenses
  /\ currentGroupSubject = localCurrent
  /\ observed = TRUE
  /\ MergeIdle
  /\ SettleIdle
  /\ UsersIdle

NextLive ==
  \/ RouteChange
  \/ DebounceFire
  \/ \E i \in 1..Len(tasks) : Resume(i)

SpecLive ==
  /\ InitLive
  /\ [][NextLive]_vars
  /\ WF_vars(DebounceFire)
  /\ \A i \in 1..MaxTasks : WF_vars(i <= Len(tasks) /\ Resume(i))

\* ------------------------------------------- a second device of the account
MaxDeviceEvents == 3  \* environment events of a run of SpecDevices

\* another device of the account saves a new group or a new expense: its push
\* replaces the document with its own list, the one stored plus the record
OtherDeviceSaves ==
  /\ Spend(1)
  /\ \/ \E g \in GroupRec :
          /\ g.id \notin Ids(remoteGroups)
          /\ remoteGroups' = Append(remoteGroups, g)
          /\ UNCHANGED remoteExpenses
     \/ \E x \in ExpenseRec :
          /\ x.id \notin Ids(remoteExpenses)
          /\ remoteExpenses' = Append(remoteExpenses, x)
          /\ UNCHANGED remoteGroups
  /\ ev' = NoEv
  /\ UNCHANGED <<online, loggedIn, hasUid, localGroups, localExpenses, localCurrent,
                 syncStatus, remoteCurrent, syncInProgress, lastSyncTime, wasOffline,
                 syncDebounceTimer, tasks, appStartTimer, pendingOnline, burst, tracked,
                 deleted, groupsSubject, expensesSubject, currentGroupSubject, observed,
                 otherVars>>

\* this device only reconciles: the user navigates and changes nothing
InitDevices ==
  /\ online = TRUE
  /\ loggedIn = TRUE
  /\ hasUid = TRUE
  /\ localGroups = <<>>
  /\ localExpenses = <<>>
  /\ localCurrent = Null
  /\ syncStatus = "synced"
  /\ remoteGroups \in UniqueLists(GroupRec, MaxGroups)
  /\ remoteExpenses \in UniqueLists(ExpenseRec, MaxExpenses)
  /\ remoteCurrent = Null
  /\ syncInProgress = FALSE
  /\ lastSyncTime = "null"
  /\ wasOffline = FALSE
  /\ pendingOnline = FALSE
  /\ syncDebounceTimer = 0
  /\ burst = 0
  /\ tasks = <<>>
  /\ appStartTimer = FALSE
  /\ ev = NoEv
  /\ tracked = Null
  /\ events = MaxDeviceEvents
  /\ deleted = NoDel
  /\ groupsSubject = localGroups
  /\ expensesSubject = localExpenses
  /\ currentGroupSubject = localCurrent
  /\ observed = TRUE
  /\ MergeIdle
  /\ SettleIdle
  /\ UsersIdle

NextDevices ==
  \/ RouteChange
  \/ DebounceFire
  \/ \E i \in 1..Len(tasks) : Resume(i)
  \/ OtherDeviceSaves

SpecDevices == InitDevices /\ [][NextDevices]_vars

\* ------------------------------------------- updateGroup
\* Groups and expenses with their participants: names are 1, 2 and 3; the group
\* edited is group 1, of 1 and 2, with two expenses; group 2 has OtherExpense.
MaxUpdateEvents == 1  \* environment events of a run of SpecUpdate: the update

OtherExpense == [id |-> 2, groupId |-> 2, paidBy |-> 1, participants |-> <<1, 2>>]

Includes(list, x) == \E k \in 1..Len(list) : list[k] = x

\* updateExpensesForGroupParticipants: the body of the loop up to `if (shouldUpdate)`
AdjustExpense(expense, newParticipants) ==
  LET updatedParticipants ==
        SelectSeq(expense.participants, LAMBDA p : Includes(newParticipants, p))
  IN [expense EXCEPT
        !.paidBy = IF Includes(newParticipants, @) THEN @ ELSE newParticipants[1],
        !.participants = IF Len(updatedParticipants) = 0 THEN newParticipants
                         ELSE IF Len(updatedParticipants) # Len(@) THEN updatedParticipants
                         ELSE @]

\* updateExpensesForGroupParticipants: shouldUpdate at `if (shouldUpdate)`
ShouldUpdate(expense, newParticipants) ==
  LET updatedParticipants ==
        SelectSeq(expense.participants, LAMBDA p : Includes(newParticipants, p))
  IN \/ ~Includes(newParticipants, expense.paidBy)
     \/ Len(updatedParticipants) = 0
     \/ Len(updatedParticipants) # Len(expense.participants)

\* updateGroup suspended in the push of one of its saves; stage: "group" in
\* saveGroup, "expenses" in a saveExpense of the loop; todo: the expenses of the
\* list read by getExpenses(groupId) the loop has not come to
UpdateTask(pc, wfail, group, stage, todo) ==
  [kind |-> "update", pc |-> pc, net |-> FALSE, wfail |-> wfail, loaded |-> FALSE,
   pullFailed |-> FALSE, dirty |-> FALSE, gid |-> 0, group |-> group, stage |-> stage,
   todo |-> todo]

\* the for loop of updateExpensesForGroupParticipants from the expenses todo on, up
\* to the first push that awaits the gateway, or to its end
RECURSIVE UpdateLoop(_, _, _, _)
UpdateLoop(S, todo, newParticipants, wok) ==
  IF todo = <<>> THEN [S |-> S, out |-> "returned", wfail |-> FALSE, todo |-> <<>>]
  ELSE IF ~ShouldUpdate(Head(todo), newParticipants)
  THEN UpdateLoop(S, Tail(todo), newParticipants, wok)
  ELSE LET expense == AdjustExpense(Head(todo), newParticipants)
           S1 == SetItemThenNext(S, "expenses",
                                 PutById(getExpensesFromStorage(S), expense))
           p == PushStart(S1, NewTask("update", "setGroups", FALSE, FALSE), wok)
       IN IF p.out = "await"
          THEN [S |-> p.S, out |-> "await", wfail |-> p.t.wfail, todo |-> Tail(todo)]
          ELSE UpdateLoop(S1, Tail(todo), newParticipants, wok)

\* updateGroup(updatedGroup) for a stored group whose participants change, up to the
\* first push that awaits the gateway; with no gateway to push to it runs to its end.
\* History: ev is "updated" when updateGroup has returned
UpdateGroup(group) ==
  /\ Unchanged1
  /\ loggedIn
  /\ \A i \in 1..Len(tasks) : tasks[i].kind # "update"
  /\ \E k \in 1..Len(localGroups) :
       localGroups[k].id = group.id /\ localGroups[k].participants # group.participants
  /\ \E wok \in BOOLEAN :
       /\ IF canSyncToFirebase THEN TRUE ELSE wok = online
       /\ Spend(IF canSyncToFirebase /\ ~wok THEN 2 ELSE 1)
       /\ LET S1 == SetItemThenNext(Cur, "groups", PutById(localGroups, group))
              p == PushStart(S1, NewTask("update", "setGroups", FALSE, FALSE), wok)
              L == UpdateLoop(S1, SelectSeq(getExpensesFromStorage(S1),
                                            LAMBDA x : x.groupId = group.id),
                              group.participants, wok)
          IN IF p.out = "await"
             THEN /\ Len(tasks) < MaxTasks
                  /\ Commit(p.S)
                  /\ tasks' = Append(MarkDirty(tasks),
                                     UpdateTask(p.t.pc, p.t.wfail, group, "group", <<>>))
                  /\ ev' = NoEv
             ELSE /\ Commit(L.S)
                  /\ tasks' = MarkDirty(tasks)
                  /\ ev' = [e |-> "updated", gid |-> group.id,
                            participants |-> group.participants]
  /\ UNCHANGED <<tracked, deleted>>

\* updateGroup resumes: the setDoc its push awaits settles; when the push has
\* returned, updateGroup goes on to the loop (after saveGroup) or on with it
ResumeUpdate(i) ==
  /\ Unchanged1
  /\ tasks[i].kind = "update"
  /\ \E wok \in BOOLEAN :
       /\ wok => online
       /\ LET t == tasks[i]
              r == PushStep(Cur, t, wok)
              L == UpdateLoop(r.S,
                              IF t.stage = "group"
                              THEN SelectSeq(getExpensesFromStorage(r.S),
                                             LAMBDA x : x.groupId = t.group.id)
                              ELSE t.todo,
                              t.group.participants, wok)
              wrote == r.out = "await" \/ L.out = "await"
          IN /\ ~wrote => (wok = online)
             /\ Spend(IF online /\ wrote /\ ~wok THEN 1 ELSE 0)
             /\ IF r.out = "await"
                THEN /\ Commit(r.S)
                     /\ tasks' = [tasks EXCEPT ![i] = r.t]
                     /\ ev' = NoEv
                ELSE /\ Commit(L.S)
                     /\ tasks' = IF L.out = "await"
                                 THEN [MarkDirty(tasks) EXCEPT
                                         ![i] = UpdateTask("setGroups", L.wfail, t.group,
                                                           "expenses", L.todo)]
                                 ELSE RemoveAt(tasks, i)
                     /\ ev' = IF L.out = "await" THEN NoEv
                              ELSE [e |-> "updated", gid |-> t.group.id,
                                    participants |-> t.group.participants]
  /\ UNCHANGED <<tracked, deleted>>

\* a session in use, the store synced: group 1 with two expenses, group 2 with one
InitUpdate ==
  /\ online \in BOOLEAN
  /\ loggedIn = TRUE
  /\ hasUid = TRUE
  /\ localGroups = <<[id |-> 1, participants |-> <<1, 2>>],
                     [id |-> 2, participants |-> <<1, 2>>]>>
  /\ \E a, b \in [id : {1}, groupId : {1}, paidBy : {1, 2},
                   participants : {<<1>>, <<2>>, <<1, 2>>}] :
       localExpenses = <<a, OtherExpense, [b EXCEPT !.id = 3]>>
  /\ localCurrent = Null
  /\ syncStatus = "synced"
  /\ remoteGroups = localGroups
  /\ remoteExpenses = localExpenses
  /\ remoteCurrent = localCurrent
  /\ syncInProgress = FALSE
  /\ lastSyncTime = "set"
  /\ wasOffline = ~online
  /\ pendingOnline = FALSE
  /\ syncDebounceTimer = 0
  /\ burst = 0
  /\ tasks = <<>>
  /\ appStartTimer = FALSE
  /\ ev = NoEv
  /\ tracked = Null
  /\ events = MaxUpdateEvents
  /\ deleted = NoDel
  /\ groupsSubject = localGroups
  /\ expensesSubject = localExpenses
  /\ currentGroupSubject = localCurrent
  /\ observed = TRUE
  /\ MergeIdle
  /\ SettleIdle
  /\ UsersIdle

\* the lists updateGroup is given are not empty
NextUpdate ==
  \/ \E P \in {<<1>>, <<3>>, <<2, 1>>, <<2, 3>>, <<1, 2, 3>>} :
       UpdateGroup([id |-> 1, participants |-> P])
  \/ \E i \in 1..Len(tasks) : ResumeUpdate(i)
  \/ \E i \in 1..Len(tasks) : tasks[i].kind # "update" /\ Resume(i)
  \/ DebounceFire

SpecUpdate == InitUpdate /\ [][NextUpdate]_vars

\* ------------------------------------------- the Record Store on a filled store
\* ids and environment events of the runs that start from a filled, synced store
MaxStoreIds == 2
MaxStoreEvents == 3

StoreIds == 1..MaxStoreIds

\* the filled store: group i with one expense i; np: the number of participants
StoreGroups == [i \in StoreIds |-> [id |-> i, v |-> 1, createdBy |-> "u1"]]

StoreExpenses ==
  [i \in StoreIds |-> [id |-> i, groupId |-> i, v |-> 1, np |-> 1, createdBy |-> "u1"]]

StoreGroupInputs ==
  {g \in [id : StoreIds \cup {0}, v : {1}, createdBy : {"", "u1"}] :
     g.id = 0 <=> g.createdBy = ""}

StoreExpenseInputs ==
  {x \in [id : StoreIds \cup {0}, groupId : StoreIds, v : {2}, np : {0, 1},
          createdBy : {"", "u1"}] :
     x.id = 0 <=> x.createdBy = ""}

\* a session in use: a user logged in with a remote id, the last reconciliation
\* has pushed the local store, no timer pending
InitStore ==
  /\ online \in BOOLEAN
  /\ loggedIn = TRUE
  /\ hasUid = TRUE
  /\ localGroups = StoreGroups
  /\ localExpenses = StoreExpenses
  /\ localCurrent \in {Null} \cup Range(localGroups)
  /\ syncStatus = "synced"
  /\ remoteGroups = localGroups
  /\ remoteExpenses = localExpenses
  /\ remoteCurrent = localCurrent
  /\ syncInProgress = FALSE
  /\ lastSyncTime = "set"
  /\ wasOffline = ~online
  /\ pendingOnline = FALSE
  /\ syncDebounceTimer = 0
  /\ burst = 0
  /\ tasks = <<>>
  /\ appStartTimer = FALSE
  /\ ev = NoEv
  /\ tracked = Null
  /\ events = MaxStoreEvents
  /\ deleted = NoDel
  /\ groupsSubject = localGroups
  /\ expensesSubject = localExpenses
  /\ currentGroupSubject = localCurrent
  /\ observed = TRUE
  /\ MergeIdle
  /\ SettleIdle
  /\ UsersIdle

NextStore ==
  \/ \E g \in StoreGroupInputs : SaveGroup(g)
  \/ \E x \in StoreExpenseInputs : SaveExpense(x)
  \/ \E id \in StoreIds : DeleteExpense(id)
  \/ \E id \in StoreIds : DeleteGroup(id)
  \/ \E g \in Range(localGroups) : SetCurrentGroup(g)
  \/ \E i \in 1..Len(tasks) : Resume(i)
  \/ RouteChange
  \/ GoOffline
  \/ Logout

SpecStore == InitStore /\ [][NextStore]_vars

\* ------------------------------------------------- the keys with a user id
\* the remote groups document of user u: one group, with an id of its own
UserRemote(u) == <<[id |-> u]>>

\* generateUUID: an id no record of any user carries
FreshUserGroupIds ==
  ((MaxUsers + 1)..(MaxUsers + MaxUserGroups))
    \ UNION {Ids(uGroups[u]) : u \in Users}

\* AuthService.login: setUser
UserLogin(u) ==
  /\ uCurrent = 0
  /\ uCurrent' = u
  /\ uev' = NoUev
  /\ UNCHANGED <<uGroups, uPull, syncVars, mergeVars, settleVars>>

\* AuthService.logout: removes the auth and user keys, and no key with a user id
UserLogout ==
  /\ uCurrent # 0
  /\ uCurrent' = 0
  /\ uev' = NoUev
  /\ UNCHANGED <<uGroups, uPull, syncVars, mergeVars, settleVars>>

\* saveGroup of a new group by the current user; with nobody logged in it throws
UserSaveGroup ==
  /\ uCurrent # 0
  /\ \E nid \in FreshUserGroupIds :
       uGroups' = [uGroups EXCEPT ![uCurrent] = Append(@, [id |-> nid])]
  /\ uev' = [e |-> "write", as |-> uCurrent, key |-> uCurrent]
  /\ UNCHANGED <<uCurrent, uPull, syncVars, mergeVars, settleVars>>

\* loadDataFromFirebase up to its first await: it keeps user.firebaseUid
UserStartPull ==
  /\ uCurrent # 0
  /\ uPull = 0
  /\ uPull' = uCurrent
  /\ uev' = NoUev
  /\ UNCHANGED <<uCurrent, uGroups, syncVars, mergeVars, settleVars>>

\* the getDoc resolves: mergeAndSaveGroups reads and writes the key of the user
\* that is current now; with nobody logged in getUserKey throws and nothing is written
UserResumePull ==
  /\ uPull # 0
  /\ uPull' = 0
  /\ uGroups' = IF uCurrent = 0 THEN uGroups
                ELSE [uGroups EXCEPT ![uCurrent] = mergeData(@, UserRemote(uPull))]
  /\ uev' = IF uCurrent = 0 THEN NoUev
            ELSE [e |-> "write", as |-> uPull, key |-> uCurrent]
  /\ UNCHANGED <<uCurrent, syncVars, mergeVars, settleVars>>

\* ExpenseService.getGroups: the key of the current user, [] with nobody logged in
UserGetGroups ==
  /\ uev' = [e |-> "read", as |-> uCurrent, key |-> uCurrent,
             out |-> IF uCurrent = 0 THEN <<>> ELSE uGroups[uCurrent]]
  /\ UNCHANGED <<uCurrent, uGroups, uPull, syncVars, mergeVars, settleVars>>

\* MemberViewService.getUserGroups(userId), userId taken from the route
\* member-view/:userId/:groupId, which has no guard
MemberViewGetUserGroups(userId) ==
  /\ uev' = [e |-> "read", as |-> uCurrent, key |-> userId, out |-> uGroups[userId]]
  /\ UNCHANGED <<uCurrent, uGroups, uPull, syncVars, mergeVars, settleVars>>

InitUsers ==
  /\ UsersIdle
  /\ SyncIdle
  /\ MergeIdle
  /\ SettleIdle

NextUsers ==
  \/ \E u \in Users : UserLogin(u)
  \/ UserLogout
  \/ UserSaveGroup
  \/ UserStartPull
  \/ UserResumePull
  \/ UserGetGroups
  \/ \E u \in Users : MemberViewGetUserGroups(u)

SpecUsers == InitUsers /\ [][NextUsers]_vars

\* ---------------------------------------------------- the settlement engine
\* Amounts and balances are counted in units of 1/128: binary fractions, on which
\* the additions, subtractions and divisions by 1 and 2 of the code are exact in
\* floating point, so that integer arithmetic computes what the code computes.
UnitsPerOne == 128

MaxNames == 3             \* participants of the group; MaxNames + 1 is an outsider
MaxSettleExpenses == 2
MaxPlanNames == 5         \* names of a balance vector given as such
MaxPlanValue == 3         \* its balances, in whole currency units

GroupParticipants == [i \in 1..MaxNames |-> i]

\* expense.participants: one or two participants of the group
ShareLists ==
  {<<a>> : a \in 1..MaxNames}
    \cup {p \in (1..MaxNames) \X (1..MaxNames) : p[1] < p[2]}

\* 0.015625, 0.125 and 0.25
SettleAmounts == {2, 16, 32}

SettleExpense ==
  [amount : SettleAmounts, paidBy : 1..(MaxNames + 1), participants : ShareLists,
   settled : BOOLEAN]

Abs(x) == IF x < 0 THEN 0 - x ELSE x

\* x < 0.01 and x > 0.01: no multiple of 1/128 lies between 0.01 and the double
\* nearest to it
BelowCent(x) == 100 * x < UnitsPerOne

AboveCent(x) == 100 * x > UnitsPerOne

\* mutant: rounds to whole currency units
ToFixed0(x) == 100 * ((2 * x + UnitsPerOne) \div (2 * UnitsPerOne))

\* parseFloat(x.toFixed(2)), in hundredths: the nearest hundredth of the exact
\* value, the larger one of two equally near
toFixed2(x) == (2 * 100 * x + UnitsPerOne) \div (2 * UnitsPerOne)

NameIndex(m, name) ==
  IF \E k \in 1..Len(m) : m[k].name = name
  THEN CHOOSE k \in 1..Len(m) : m[k].name = name ELSE 0

\* balances.get(name) || 0
BalGet(m, name) == IF NameIndex(m, name) = 0 THEN 0 ELSE m[NameIndex(m, name)].balance

\* balances.set(name, value) on an insertion-ordered map
BalSet(m, name, value) ==
  IF NameIndex(m, name) = 0 THEN Append(m, [name |-> name, balance |-> value])
  ELSE [m EXCEPT ![NameIndex(m, name)].balance = value]

\* mutant: the payer is not charged a share of their own
RECURSIVE SubtractSharesOfOthers(_, _, _)
SubtractSharesOfOthers(m, names, amountPerPerson) ==
  IF names = <<>> THEN m
  ELSE SubtractSharesOfOthers(
         IF BalGet(m, Head(names)) > 0 THEN m
         ELSE BalSet(m, Head(names), BalGet(m, Head(names)) - amountPerPerson),
         Tail(names), amountPerPerson)

RECURSIVE SubtractShares(_, _, _)
SubtractShares(m, names, amountPerPerson) ==
  IF names = <<>> THEN m
  ELSE SubtractShares(BalSet(m, Head(names), BalGet(m, Head(names)) - amountPerPerson),
                      Tail(names), amountPerPerson)

\* mutant: a payer who is not in the map is not credited
RECURSIVE AddExpensesOfMembers(_, _)
AddExpensesOfMembers(m, expenses) ==
  IF expenses = <<>> THEN m
  ELSE LET expense == Head(expenses)
           amountPerPerson == expense.amount \div Len(expense.participants)
           paid == IF NameIndex(m, expense.paidBy) = 0 THEN m
                   ELSE BalSet(m, expense.paidBy, BalGet(m, expense.paidBy) + expense.amount)
       IN AddExpensesOfMembers(IF expense.settled THEN m
                               ELSE SubtractShares(paid, expense.participants, amountPerPerson),
                               Tail(expenses))

\* calculateBalances: expenses.forEach
RECURSIVE AddExpenses(_, _)
AddExpenses(m, expenses) ==
  IF expenses = <<>> THEN m
  ELSE LET expense == Head(expenses)
           amountPerPerson == expense.amount \div Len(expense.participants)
           paid == BalSet(m, expense.paidBy, BalGet(m, expense.paidBy) + expense.amount)
       IN AddExpenses(IF expense.settled THEN m
                      ELSE SubtractShares(paid, expense.participants, amountPerPerson),
                      Tail(expenses))

\* mutant: the map is a field of the service, seeded once and added to by every call
CalculateBalancesCached(participants, expenses) ==
  AddExpenses(IF sBalances # <<>> THEN sBalances
              ELSE [i \in 1..Len(participants) |-> [name |-> participants[i], balance |-> 0]],
              expenses)

\* calculateBalances, for a group that exists
calculateBalances(participants, expenses) ==
  AddExpenses([i \in 1..Len(participants) |-> [name |-> participants[i], balance |-> 0]],
              expenses)

RECURSIVE SumOver(_, _)
SumOver(f, S) ==
  IF S = {} THEN 0 ELSE LET x == CHOOSE x \in S : TRUE IN f[x] + SumOver(f, S \ {x})

\* mutant: the settled expenses are left out of the total
GetTotalExpensesUnsettled(expenses) ==
  SumOver([k \in 1..Len(expenses) |-> expenses[k].amount],
          {k \in 1..Len(expenses) : ~expenses[k].settled})

\* getTotalExpenses: expenses.reduce((total, expense) => total + expense.amount, 0)
getTotalExpenses(expenses) ==
  SumOver([k \in 1..Len(expenses) |-> expenses[k].amount], 1..Len(expenses))

\* getExpensesByParticipant: the map from each payer to the sum of what they paid
RECURSIVE getExpensesByParticipant(_)
getExpensesByParticipant(expenses) ==
  IF expenses = <<>> THEN <<>>
  ELSE LET expense == expenses[Len(expenses)]
           m == getExpensesByParticipant(SubSeq(expenses, 1, Len(expenses) - 1))
       IN BalSet(m, expense.paidBy, BalGet(m, expense.paidBy) + expense.amount)

RECURSIVE InsertSorted(_, _)
InsertSorted(sorted, x) ==
  IF sorted = <<>> THEN <<x>>
  ELSE IF sorted[Len(sorted)].balance <= x.balance THEN Append(sorted, x)
  ELSE Append(InsertSorted(SubSeq(sorted, 1, Len(sorted) - 1), x), sorted[Len(sorted)])

RECURSIVE SortInto(_, _)
SortInto(sorted, list) ==
  IF list = <<>> THEN sorted ELSE SortInto(InsertSorted(sorted, Head(list)), Tail(list))

\* mutant: the entries are left in the order of the map
SortByBalanceNone(list) == list

\* balanceArray.sort((a, b) => a.balance - b.balance): stable
SortByBalance(list) == SortInto(<<>>, list)

\* mutant: at most 1/64 is transferred at a time
TransferAmountSmall(debtorBalance, creditorBalance) ==
  Min(Min(Abs(debtorBalance), creditorBalance), 2)

\* Math.min(Math.abs(debtor.balance), creditor.balance)
TransferAmount(debtorBalance, creditorBalance) ==
  Min(Abs(debtorBalance), creditorBalance)

\* the while loop of getSimplifiedBalances, from pointers i and j on
RECURSIVE Sweep(_, _, _, _)
Sweep(b, i, j, transactions) ==
  IF ~(i < j) THEN transactions
  ELSE IF BelowCent(Abs(b[i].balance)) /\ BelowCent(b[j].balance) THEN transactions
  ELSE LET amount == TransferAmount(b[i].balance, b[j].balance)
           paid == [b EXCEPT ![i].balance = @ + amount, ![j].balance = @ - amount]
       IN IF AboveCent(amount)
          THEN Sweep(paid,
                     IF BelowCent(Abs(paid[i].balance)) THEN i + 1 ELSE i,
                     IF BelowCent(paid[j].balance) THEN j - 1 ELSE j,
                     Append(transactions,
                            [from |-> b[i].name, to |-> b[j].name,
                             amount |-> toFixed2(amount)]))
          ELSE transactions

\* getSimplifiedBalances on the map calculateBalances returns
getSimplifiedBalances(balances) ==
  Sweep(SortByBalance(balances), 1, Len(balances), <<>>)

\* the balance view computes its figures: calculateBalances, getSimplifiedBalances
\* (which calls calculateBalances itself), getTotalExpenses, getExpensesByParticipant;
\* it does so again whenever it is refreshed
Settle ==
  /\ sPc \in {"input", "settled"}
  /\ sBalances' = calculateBalances(GroupParticipants, sExpenses)
  /\ sPlan' = getSimplifiedBalances(calculateBalances(GroupParticipants, sExpenses))
  /\ sTotal' = getTotalExpenses(sExpenses)
  /\ sByPayer' = getExpensesByParticipant(sExpenses)
  /\ sPc' = IF sPc = "input" THEN "settled" ELSE "again"
  /\ UNCHANGED <<sExpenses, sSweep, syncVars, mergeVars, userVars>>

InitSettle ==
  /\ sExpenses \in ListsUpTo(SettleExpense, MaxSettleExpenses)
  /\ sBalances = <<>>
  /\ sPlan = <<>>
  /\ sTotal = 0
  /\ sByPayer = <<>>
  /\ sPc = "input"
  /\ sSweep = [i |-> 0, j |-> 0]
  /\ SyncIdle
  /\ MergeIdle
  /\ UsersIdle

NextSettle == Settle

SpecSettle == InitSettle /\ [][NextSettle]_vars

\* the sweep on a balance vector given as such
PlanVectors ==
  {[i \in 1..MaxPlanNames |-> [name |-> i, balance |-> f[i] * UnitsPerOne]] :
     f \in {g \in [1..MaxPlanNames -> (0 - MaxPlanValue)..MaxPlanValue] :
              SumOver(g, 1..MaxPlanNames) = 0}}

SettleVector ==
  /\ sPc = "vector"
  /\ sPlan' = getSimplifiedBalances(sBalances)
  /\ sPc' = "settled"
  /\ UNCHANGED <<sExpenses, sBalances, sTotal, sByPayer, sSweep, syncVars, mergeVars,
                 userVars>>

InitPlan ==
  /\ sExpenses = <<>>
  /\ sBalances \in PlanVectors
  /\ sPlan = <<>>
  /\ sTotal = 0
  /\ sByPayer = <<>>
  /\ sPc = "vector"
  /\ sSweep = [i |-> 0, j |-> 0]
  /\ SyncIdle
  /\ MergeIdle
  /\ UsersIdle

NextPlan == SettleVector

SpecPlan == InitPlan /\ [][NextPlan]_vars

\* ------------------------------------- the sweep, one iteration at a time
\* getSimplifiedBalances on the expenses as stored, an expense with no participant
\* among them: 0.125 and 0.25, paid by a member or by an outsider
MaxSweepExpenses == 2

SweepExpense ==
  [amount : {16, 32}, paidBy : {1, 2, MaxNames + 1},
   participants : {<<>>, <<1>>, <<1, 2>>, <<2, 3>>}, settled : {FALSE}]

\* getSimplifiedBalances up to the while loop: calculateBalances, the array, its sort
SweepBegin ==
  /\ sPc = "input"
  /\ sBalances' = SortByBalance(calculateBalances(GroupParticipants, sExpenses))
  /\ sPlan' = <<>>
  /\ sSweep' = [i |-> 1, j |-> Len(sBalances')]
  /\ sPc' = "sweep"
  /\ UNCHANGED <<sExpenses, sTotal, sByPayer, syncVars, mergeVars, userVars>>

\* mutant: the test of the amount has no `else break`
SweepStepNoBreak ==
  /\ sPc = "sweep"
  /\ LET i == sSweep.i
         j == sSweep.j
         debtor == sBalances[i]
         creditor == sBalances[j]
         amount == TransferAmount(debtor.balance, creditor.balance)
         paid == [sBalances EXCEPT ![i].balance = @ + amount, ![j].balance = @ - amount]
     IN IF \/ ~(i < j)
           \/ BelowCent(Abs(debtor.balance)) /\ BelowCent(creditor.balance)
        THEN /\ sPc' = "swept"
             /\ UNCHANGED <<sBalances, sPlan, sSweep>>
        ELSE IF ~AboveCent(amount)
        THEN UNCHANGED <<sBalances, sPlan, sSweep, sPc>>
        ELSE /\ sPlan' = Append(sPlan, [from |-> debtor.name, to |-> creditor.name,
                                        amount |-> toFixed2(amount)])
             /\ sBalances' = paid
             /\ sSweep' = [i |-> IF BelowCent(Abs(paid[i].balance)) THEN i + 1 ELSE i,
                           j |-> IF BelowCent(paid[j].balance) THEN j - 1 ELSE j]
             /\ sPc' = "sweep"
  /\ UNCHANGED <<sExpenses, sTotal, sByPayer, syncVars, mergeVars, userVars>>

\* one test of `while (i < j)` and, when it holds, one run of the body
SweepStep ==
  /\ sPc = "sweep"
  /\ LET i == sSweep.i
         j == sSweep.j
         debtor == sBalances[i]
         creditor == sBalances[j]
         amount == TransferAmount(debtor.balance, creditor.balance)
         paid == [sBalances EXCEPT ![i].balance = @ + amount, ![j].balance = @ - amount]
     IN IF \/ ~(i < j)
           \/ BelowCent(Abs(debtor.balance)) /\ BelowCent(creditor.balance)
           \/ ~AboveCent(amount)
        THEN /\ sPc' = "swept"
             /\ UNCHANGED <<sBalances, sPlan, sSweep>>
        ELSE /\ sPlan' = Append(sPlan, [from |-> debtor.name, to |-> creditor.name,
                                        amount |-> toFixed2(amount)])
             /\ sBalances' = paid
             /\ sSweep' = [i |-> IF BelowCent(Abs(paid[i].balance)) THEN i + 1 ELSE i,
                           j |-> IF BelowCent(paid[j].balance) THEN j - 1 ELSE j]
             /\ sPc' = "sweep"
  /\ UNCHANGED <<sExpenses, sTotal, sByPayer, syncVars, mergeVars, userVars>>

InitSweep ==
  /\ sExpenses \in ListsUpTo(SweepExpense, MaxSweepExpenses)
  /\ sBalances = <<>>
  /\ sPlan = <<>>
  /\ sTotal = 0
  /\ sByPayer = <<>>
  /\ sPc = "input"
  /\ sSweep = [i |-> 0, j |-> 0]
  /\ SyncIdle
  /\ MergeIdle
  /\ UsersIdle

NextSweep == SweepBegin \/ SweepStep

\* the loop runs on: while it has not ended, its next iteration is run
SpecSweep == InitSweep /\ [][NextSweep]_vars /\ WF_vars(SweepStep)

\* ------------------------------------------------- mergeData on its own
MergeRec == [id : 1..MaxMergeIds, v : Versions]

MergeLists == UniqueLists(MergeRec, MaxLen)

InitMerge ==
  /\ mLocal \in MergeLists
  /\ mRemote \in MergeLists
  /\ mOut = NoMerge
  /\ SyncIdle
  /\ SettleIdle
  /\ UsersIdle

\* mergeData(local, remote) and mergeData(remote, local)
Merge ==
  /\ ~mOut.done
  /\ mOut' = [lr |-> mergeData(mLocal, mRemote), rl |-> mergeData(mRemote, mLocal),
              done |-> TRUE]
  /\ UNCHANGED <<mLocal, mRemote, syncVars, settleVars, userVars>>

NextMerge == Merge

SpecMerge == InitMerge /\ [][NextMerge]_vars

\* ----------------------------------------------------------------- claims
\* a step of a reconciliation (triggerSync's async function) just ran
SyncStep == ev.e = "resume"

\* that step was the reconciliation's last
SyncSettled == SyncStep /\ ev.out # "await"

\* triggerSync was just called
Triggered == ev.e = "trigger"

\* the debounce countdown just elapsed
Fired == Triggered /\ ev.fired

\* C1: at most one reconciliation is in flight at any time, the flag is set while it
\* is, and a triggerSync call that finds syncInProgress set starts nothing and
\* contacts no gateway.
C1_OneReconciliation ==
  /\ Cardinality(SyncIdx) <= 1
  /\ InFlight => syncInProgress
  /\ (Triggered /\ ev.busy) => (~ev.started /\ ev.issued = {} /\ InFlight)

\* a trigger arrived while a reconciliation was in flight, and was dropped
C1_Witness == Triggered /\ ev.busy /\ ~ev.started /\ Cardinality(SyncIdx) = 1

\* C2: mergeData(L, R) holds exactly one record per id of ids(L) \cup ids(R): R's
\* record for an id of R, L's record for an id of L only.
C2_RemoteWinsById ==
  mOut.done =>
    /\ UniqueIds(mOut.lr)
    /\ Ids(mOut.lr) = Ids(mLocal) \cup Ids(mRemote)
    /\ \A r \in Range(mRemote) : r \in Range(mOut.lr)
    /\ \A l \in Range(mLocal) : l.id \notin Ids(mRemote) => l \in Range(mOut.lr)

\* merged: an id of L only, an id of both with two contents, an id of R only
C2_Witness ==
  /\ mOut.done
  /\ Ids(mLocal) \ Ids(mRemote) # {}
  /\ Ids(mRemote) \ Ids(mLocal) # {}
  /\ \E l \in Range(mLocal), r \in Range(mRemote) : l.id = r.id /\ l.v # r.v

\* C3: for L and R with disjoint id sets, mergeData(L, R) and mergeData(R, L) are
\* the same set of records.
C3_CommutesOnDisjointIds ==
  (mOut.done /\ Ids(mLocal) \cap Ids(mRemote) = {}) =>
    Range(mOut.lr) = Range(mOut.rl)

\* merged both ways from two disjoint non-empty lists: the lists differ in order only
C3_Witness ==
  /\ mOut.done
  /\ Ids(mLocal) \cap Ids(mRemote) = {}
  /\ mLocal # <<>>
  /\ mRemote # <<>>
  /\ mOut.lr # mOut.rl

\* C4 as the specification states it: the countdown of a burst of N >= 1 triggers
\* elapses into exactly one reconciliation.
C4_ExactlyOnePerBurst == Fired => ev.started

\* C4: a burst of N >= 1 triggers leaves one pending countdown, whose elapsing starts
\* at most one reconciliation: one exactly when the user is authenticated, the network
\* online and no reconciliation in flight at that moment.
C4_OneCallbackPerBurst ==
  /\ syncDebounceTimer <= 1
  /\ Fired =>
       /\ ev.n >= 1
       /\ syncDebounceTimer = 0
       /\ ev.started <=> (online /\ loggedIn /\ ~ev.busy)

\* the countdown of a burst of two triggers elapsed into a reconciliation
C4_Witness == Fired /\ ev.n >= 2 /\ ev.started /\ InFlight

\* C5: the gateway is contacted only while the user is authenticated and the network
\* online.
C5_GatewayOnlyWhenAdmitted ==
  (ev.e \in {"trigger", "resume"} /\ ev.issued # {}) => (online /\ loggedIn)

\* C6: a reconciliation that settles, by returning or by throwing, leaves
\* syncInProgress false, and the flag is never set with no reconciliation in flight.
C6_SettlesToIdle ==
  /\ syncInProgress => InFlight
  /\ SyncSettled => ~syncInProgress

\* a reconciliation ended by an error thrown out of the catch blocks
C6_Witness == SyncSettled /\ ev.out = "threw" /\ ~syncInProgress

\* C7: no push is issued in a reconciliation after one of its fetches failed.
C7_NoPushAfterFailedPull ==
  (SyncStep /\ ev.pullFailed) => ev.issued \cap PushPcs = {}

\* C8: a reconciliation in which a gateway call failed settles with the status
\* `error` (the user still logged in, nothing else having touched the store).
C8_ErrorAfterFailure ==
  (SyncSettled /\ ev.failed /\ loggedIn /\ ~ev.dirty) =>
    syncStatus = "error"

\* C9: when a reconciliation completes with no gateway failure and no local mutation
\* interleaved, every local group and expense is in the remote store with its content.
C9_LocalPresentRemotely ==
  (SyncSettled /\ ev.pushed /\ ~ev.pullFailed /\ ~ev.dirty) =>
    /\ Range(localGroups) \subseteq Range(remoteGroups)
    /\ Range(localExpenses) \subseteq Range(remoteExpenses)

\* such a reconciliation completed with groups and expenses in the local store
C9_Witness ==
  /\ SyncSettled /\ ev.pushed /\ ~ev.pullFailed /\ ~ev.dirty
  /\ localGroups # <<>>
  /\ localExpenses # <<>>

\* C10: an expense saved while a reconciliation is in flight, the user staying
\* authenticated, the network online and no gateway call failing, stays in the local
\* store (from which every push copies) until it is in the remote store.
C10_SavedDuringSyncKept ==
  tracked # Null => tracked \in Range(localExpenses) \cup Range(remoteExpenses)

C13_NoIdentityFails ==
  (ev.e = "op" /\ ~loggedIn) => ev.threw

\* C15: a put (saveGroup / saveExpense) of a record with a non-empty id that has
\* returned normally leaves the record in its collection.
C15_PutStoresOrFails ==
  (ev.e = "op" /\ ev.op \in {"saveGroup", "saveExpense"} /\ ev.done /\ ~ev.threw
     /\ ev.id # 0) =>
    ev.id \in (IF ev.op = "saveGroup" THEN Ids(localGroups) ELSE Ids(localExpenses))

C16_NoEmptyParticipantsStored ==
  \A x \in Range(localExpenses) : x.np # 0

\* C17: when the push that follows saveGroup, saveExpense, deleteGroup or
\* deleteExpense fails, the operation does not raise to its caller.
C17_FailedPushDoesNotRaise ==
  (ev.e = "opdone" /\ ev.failed) => ~ev.threw

\* the transfers' total, in hundredths
RECURSIVE PlanTotal(_)
PlanTotal(plan) == IF plan = <<>> THEN 0 ELSE Head(plan).amount + PlanTotal(Tail(plan))

Creditors(balances) == {k \in 1..Len(balances) : balances[k].balance > 0}

Debtors(balances) == {k \in 1..Len(balances) : balances[k].balance < 0}

\* the names on the side of the debtors or of the creditors, whichever are more
LargerSide(balances) ==
  IF Cardinality(Debtors(balances)) < Cardinality(Creditors(balances))
  THEN Cardinality(Creditors(balances)) ELSE Cardinality(Debtors(balances))

PositiveTotal(balances) ==
  SumOver([k \in 1..Len(balances) |-> balances[k].balance], Creditors(balances))

\* | sum of the transfers - sum of the positive balances |, in 1/12800
PlanError == Abs(UnitsPerOne * PlanTotal(sPlan) - 100 * PositiveTotal(sBalances))

RECURSIVE MaxZeroSumBlocks(_, _)
MaxZeroSumBlocks(f, S) ==
  IF S = {} THEN 0
  ELSE LET x == CHOOSE x \in S : TRUE
           blocks == {B \in SUBSET S : x \in B /\ SumOver(f, B) = 0}
           counts == {1 + MaxZeroSumBlocks(f, S \ B) : B \in blocks}
       IN CHOOSE c \in counts : \A d \in counts : d <= c

NonZero(balances) == {k \in 1..Len(balances) : balances[k].balance # 0}

MinTransfers(balances) ==
  Cardinality(NonZero(balances))
    - MaxZeroSumBlocks([k \in 1..Len(balances) |-> balances[k].balance], NonZero(balances))

\* what the plan leaves name with: received less paid, in hundredths
RECURSIVE PlanNet(_, _)
PlanNet(plan, name) ==
  IF plan = <<>> THEN 0
  ELSE (IF Head(plan).to = name THEN Head(plan).amount ELSE 0)
       - (IF Head(plan).from = name THEN Head(plan).amount ELSE 0)
       + PlanNet(Tail(plan), name)

C14_NoCrossUserVisibility ==
  /\ uev.e = "write" => uev.key = uev.as
  /\ (uev.e = "read" /\ uev.out # <<>>) => uev.key = uev.as

\* C21: calculateBalances gives a balance to every participant of the group and to
\* every payer and beneficiary of an unsettled expense, and to nobody twice; the balance
\* of a name is what it paid for the unsettled expenses less, for each of them that
\* names it as a beneficiary, amount / len(participants).
C21_BalancesEqualReference ==
  sPc = "settled" =>
    LET open == {k \in 1..Len(sExpenses) : ~sExpenses[k].settled}
        paid(name) == SumOver([k \in 1..Len(sExpenses) |-> sExpenses[k].amount],
                              {k \in open : sExpenses[k].paidBy = name})
        owed(name) == SumOver([k \in 1..Len(sExpenses) |->
                                 sExpenses[k].amount \div Len(sExpenses[k].participants)],
                              {k \in open : name \in Range(sExpenses[k].participants)})
    IN /\ {sBalances[k].name : k \in 1..Len(sBalances)}
            = Range(GroupParticipants)
                \cup {sExpenses[k].paidBy : k \in open}
                \cup UNION {Range(sExpenses[k].participants) : k \in open}
       /\ \A j, k \in 1..Len(sBalances) : sBalances[j].name = sBalances[k].name => j = k
       /\ \A k \in 1..Len(sBalances) :
            sBalances[k].balance = paid(sBalances[k].name) - owed(sBalances[k].name)

\* one expense, paid by one of its two beneficiaries: the payer nets the amount less
\* one share, the other owes a share
C21_Witness ==
  /\ sPc = "settled"
  /\ Len(sExpenses) = 1
  /\ ~sExpenses[1].settled
  /\ Len(sExpenses[1].participants) = 2
  /\ sExpenses[1].paidBy = sExpenses[1].participants[1]
  /\ BalGet(sBalances, sExpenses[1].paidBy) = sExpenses[1].amount \div 2
  /\ BalGet(sBalances, sExpenses[1].participants[2]) = 0 - (sExpenses[1].amount \div 2)

\* C22: a settled expense contributes nothing to calculateBalances and to the
\* transfers (they are what they are without it), while getTotalExpenses sums the
\* amounts of all expenses and getExpensesByParticipant those of each payer, settled
\* or not.
C22_SettledCountsInTotalsOnly ==
  sPc = "settled" =>
    /\ \A k \in 1..Len(sExpenses) :
         sExpenses[k].settled =>
           /\ sBalances = calculateBalances(GroupParticipants, RemoveAt(sExpenses, k))
           /\ sPlan = getSimplifiedBalances(sBalances)
    /\ sTotal = SumOver([k \in 1..Len(sExpenses) |-> sExpenses[k].amount],
                        1..Len(sExpenses))
    /\ \A name \in 1..(MaxNames + 1) :
         BalGet(sByPayer, name)
           = SumOver([k \in 1..Len(sExpenses) |-> sExpenses[k].amount],
                     {k \in 1..Len(sExpenses) : sExpenses[k].paidBy = name})

\* a settled and an unsettled expense: the total counts both, the balances only one
C22_Witness ==
  /\ sPc = "settled"
  /\ Len(sExpenses) = 2
  /\ sExpenses[1].settled /\ ~sExpenses[2].settled
  /\ sTotal = sExpenses[1].amount + sExpenses[2].amount
  /\ BalGet(sByPayer, sExpenses[1].paidBy) >= sExpenses[1].amount
  /\ sBalances = calculateBalances(GroupParticipants, <<sExpenses[2]>>)
  /\ sPlan # <<>>

C24_EveryTriggerDebounced ==
  (Triggered /\ ev.started /\ ev.src # "force") => ev.src \in {"data_change", "app_start"}

\* C24: a data change (saveGroup, saveExpense, deleteGroup, deleteExpense) arms the
\* debounce countdown and calls triggerSync only when it elapses; a navigation and the
\* delayed application start call triggerSync at once, which starts a reconciliation
\* exactly when none is in flight, the network is online and the user authenticated;
\* so does the online event after an offline period.
C24_OnlyDataChangesDebounced ==
  /\ (ev.e = "op" /\ ~ev.threw
        /\ ev.op \in {"saveGroup", "saveExpense", "deleteGroup", "deleteExpense"}) =>
       syncDebounceTimer = 1
  /\ (Triggered /\ ev.src = "data_change") => (ev.n >= 1 /\ syncDebounceTimer = 0)
  /\ (Triggered /\ ev.src \in {"route_change", "app_start"}) =>
       (ev.started <=> (~ev.busy /\ online /\ loggedIn))
  /\ (Triggered /\ ev.src = "network_online" /\ ~ev.busy /\ online /\ loggedIn
        /\ wasOffline) => ev.started

\* a navigation has started a reconciliation while the countdown of a data change
\* was pending
C24_Witness ==
  /\ Triggered /\ ev.src = "route_change" /\ ev.started /\ InFlight
  /\ syncDebounceTimer = 1
  /\ localGroups # <<>>

\* C26: lastSyncTime is set only by the step in which a reconciliation completes with
\* no gateway failure.
C26_LastSyncOnSuccessOnly ==
  [][(lastSyncTime = "null" /\ lastSyncTime' = "set") =>
       (ev'.e = "resume" /\ ev'.out = "returned" /\ ev'.pushed /\ ~ev'.failed)]_vars

C28_StoredBeforeNotified ==
  /\ observed
  /\ (ev.e = "op" /\ ~ev.threw) =>
       /\ groupsSubject = localGroups
       /\ expensesSubject = localExpenses
       /\ currentGroupSubject = localCurrent

\* deleteGroup has notified the subscribers of the groups, of the expenses and of the
\* active group
C28_Witness ==
  /\ ev.e = "op" /\ ev.op = "deleteGroup" /\ ~ev.threw
  /\ Len(groupsSubject) = 1 /\ Len(expensesSubject) = 1
  /\ ev.id \notin Ids(groupsSubject)
  /\ currentGroupSubject = Null /\ remoteCurrent # Null

\* C29: a put of a record with no id appends that record alone, with an id no other
\* record of the collection has and createdBy the current user; a put of a record whose
\* id the collection holds replaces the record of that id where it is, and nothing
\* else; a delete by id removes the records of that id and nothing else.
C29_RecordLifecycle ==
  [][(ev'.e = "op" /\ ~ev'.threw) =>
       /\ \A x \in StoreExpenseInputs :
            SaveExpense(x) =>
              /\ localGroups' = localGroups
              /\ x.id = 0 =>
                   /\ ev'.id \notin Ids(localExpenses) \cup {0}
                   /\ localExpenses'
                        = Append(localExpenses, [x EXCEPT !.id = ev'.id, !.createdBy = "u1"])
              /\ x.id \in Ids(localExpenses) =>
                   localExpenses' = [k \in 1..Len(localExpenses) |->
                                      IF localExpenses[k].id = x.id THEN x
                                      ELSE localExpenses[k]]
       /\ \A g \in StoreGroupInputs :
            SaveGroup(g) =>
              /\ localExpenses' = localExpenses
              /\ g.id = 0 =>
                   /\ ev'.id \notin Ids(localGroups) \cup {0}
                   /\ localGroups'
                        = Append(localGroups, [g EXCEPT !.id = ev'.id, !.createdBy = "u1"])
              /\ g.id \in Ids(localGroups) =>
                   localGroups' = [k \in 1..Len(localGroups) |->
                                    IF localGroups[k].id = g.id THEN g ELSE localGroups[k]]
       /\ \A id \in StoreIds :
            /\ DeleteExpense(id) =>
                 /\ localGroups' = localGroups
                 /\ localExpenses' = SelectSeq(localExpenses, LAMBDA x : x.id # id)
            /\ DeleteGroup(id) =>
                 localGroups' = SelectSeq(localGroups, LAMBDA g : g.id # id)]_vars

\* an expense with no id was put after another was deleted: it is the last of the
\* list, with the id generated and the user's createdBy
C29_Witness ==
  /\ ev.e = "op" /\ ev.op = "saveExpense" /\ ~ev.threw
  /\ Len(localExpenses) = 2
  /\ localExpenses[1].id = 2
  /\ localExpenses[2].id = ev.id
  /\ localExpenses[2].createdBy = "u1"
  /\ localExpenses[2].v = 2

\* no reconciliation in flight and no debounce countdown pending
Quiet == ~syncInProgress /\ ~InFlight /\ syncDebounceTimer = 0

\* C25: after a call of triggerSync that finds a reconciliation in flight, a further
\* reconciliation is eventually started.
C25_TriggerDuringSyncServed ==
  (Triggered /\ ev.busy) ~> (Triggered /\ ev.started)

\* C30: the orchestrator is eventually idle for good, with no countdown pending.
C30_Quiescence == <>[]Quiet

\* C31: the active-group pointer is null or the id of a group of the local groups
\* collection, after any local operations and reconciliations; a pointer cleared
\* by deleteGroup is not restored to a group that is no longer stored locally.
C31_ActivePointerValid ==
  localCurrent = Null \/ localCurrent.id \in Ids(localGroups)

\* C32: a write to the remote store made by this client never removes from a remote
\* collection a record that this client did not delete locally. Stated for a client
\* that deletes nothing, and for the steps of a reconciliation none of whose gateway
\* calls failed: every record held remotely before the step is held after it.
C32_PushKeepsRemoteRecords ==
  [][(ev'.e = "resume" /\ ~ev'.failed)
       => /\ Ids(remoteGroups) \subseteq Ids(remoteGroups')
          /\ Ids(remoteExpenses) \subseteq Ids(remoteExpenses')]_vars

\* C33: gateway calls are serialised: at no time are two async functions (a
\* reconciliation, the push of a save or delete handler, the initial load) suspended
\* at a gateway call together.
C33_GatewayCallsSerialised == Len(tasks) <= 1

\* C34: every expense of the local store has the groupId of a group of the local
\* groups collection. Stated for the steps of a reconciliation: a step that finds
\* the local store so leaves it so.
C34_ReferentialIntegrity ==
  [][(/\ ev'.e = "resume"
      /\ \A k \in 1..Len(localExpenses) : localExpenses[k].groupId \in Ids(localGroups))
       => \A k \in 1..Len(localExpenses') : localExpenses'[k].groupId \in Ids(localGroups')]_vars

\* C35: the local groups collection and the local expenses collection hold at most
\* one record per id in every reachable state, after any puts, deletes and merges
\* with remote snapshots.
C35_IdsUnique == UniqueIds(localGroups) /\ UniqueIds(localExpenses)

\* a reconciliation has just merged a remote snapshot of two expenses into a local
\* list of two with the same ids, one of them put by a save under its stored id
C35_Witness ==
  /\ ev.e = "resume"
  /\ ev.issued = {"getCurrent"}
  /\ ~ev.failed
  /\ Len(localExpenses) = 2
  /\ Ids(localExpenses) = Ids(remoteExpenses)
  /\ \E k \in 1..Len(localExpenses) : localExpenses[k].v = 2

\* C36: when updateGroup has changed a group's participants to a non-empty list P
\* and returned, every expense of that group has paidBy in P and a non-empty
\* participants list within P, and the expenses of other groups are as they were.
C36_ExpensesFollowParticipants ==
  ev.e = "updated" =>
    /\ \A k \in 1..Len(localExpenses) :
         localExpenses[k].groupId = ev.gid =>
           /\ Includes(ev.participants, localExpenses[k].paidBy)
           /\ localExpenses[k].participants # <<>>
           /\ \A p \in Range(localExpenses[k].participants) : Includes(ev.participants, p)
    /\ SelectSeq(localExpenses, LAMBDA x : x.groupId # ev.gid) = <<OtherExpense>>

\* C37: the balances calculateBalances returns sum to zero when every unsettled
\* expense of the group has a non-empty participants list, whether or not the payer
\* is among the expense's participants or the group's.
C37_BalancesSumToZero ==
  (/\ sPc \in {"settled", "again"}
   /\ \A k \in 1..Len(sExpenses) :
        ~sExpenses[k].settled => sExpenses[k].participants # <<>>)
    => SumOver([k \in 1..Len(sBalances) |-> sBalances[k].balance], 1..Len(sBalances)) = 0

\* two unsettled expenses, one paid by somebody who is not in the group, one by a
\* member who has no share in it
C37_Witness ==
  /\ sPc = "settled"
  /\ Len(sExpenses) = 2
  /\ ~sExpenses[1].settled
  /\ ~sExpenses[2].settled
  /\ ~Includes(GroupParticipants, sExpenses[1].paidBy)
  /\ Includes(GroupParticipants, sExpenses[2].paidBy)
  /\ ~Includes(sExpenses[2].participants, sExpenses[2].paidBy)
  /\ \E k \in 1..Len(sBalances) : sBalances[k].balance > 0

\* C38: every transfer getSimplifiedBalances emits is well formed: from and to are
\* different names, the amount is above 0.01, from has a negative and to a positive
\* balance in calculateBalances of the same data, and the transfers applied leave
\* every name's balance within 0.01 of zero.
C38_TransfersWellFormed ==
  sPc = "swept" =>
    LET balances == calculateBalances(GroupParticipants, sExpenses)
    IN /\ \A k \in 1..Len(sPlan) :
            /\ sPlan[k].from # sPlan[k].to
            /\ sPlan[k].amount > 1
            /\ BalGet(balances, sPlan[k].from) < 0
            /\ BalGet(balances, sPlan[k].to) > 0
       /\ \A k \in 1..Len(balances) :
            Abs(100 * balances[k].balance - UnitsPerOne * PlanNet(sPlan, balances[k].name))
              <= UnitsPerOne

\* C39: the sweep of getSimplifiedBalances terminates for every balance vector,
\* those that are not zero-sum among them.
C39_SweepTerminates == (sPc = "sweep") ~> (sPc = "swept")

\* the sweep has ended on balances that do not sum to zero, after an iteration that
\* advanced neither pointer (the same pair of names got two transfers in a row)
C39_Witness ==
  /\ sPc = "swept"
  /\ SumOver([k \in 1..Len(sBalances) |-> sBalances[k].balance], 1..Len(sBalances)) # 0
  /\ \E k \in 1..(Len(sPlan) - 1) :
       sPlan[k].from = sPlan[k + 1].from /\ sPlan[k].to = sPlan[k + 1].to
  /\ sPlan = getSimplifiedBalances(calculateBalances(GroupParticipants, sExpenses))

====
